---- MODULE Spec2Model ----
(***************************************************************************)
(* Phased generation workflow of the PRD generator: the phase-gate state   *)
(* machine of PhaseService (backend/app/services/phase_service.py), the    *)
(* SQLite rows of PhaseStore (backend/app/store/phase_store.py), the       *)
(* in-memory PhasedFlowRunner (prdgen/phased/flows.py) and the snapshot    *)
(* functions of prdgen/phased/phases.py.                                   *)
(*                                                                         *)
(* One session is modelled.  A service call is two steps, its status check *)
(* and the rest (each store call is one SQLite transaction), so calls of   *)
(* several request threads and the generation threads interleave.          *)
(*                                                                         *)
(* Artifact types are the strings the phase definitions list.  The         *)
(* generator's walk over the dependency tables is modelled by the order    *)
(* in which generate_selected visits the artifact types; every backend     *)
(* call may return a content or raise.                                     *)
(*                                                                         *)
(* Three parts stand on their own: the dependency resolver of              *)
(* prdgen/dependencies.py (ResolveSpec), the round trip of a snapshot      *)
(* directory through save_snapshot_to_disk and load_snapshot_from_disk     *)
(* (DiskSpec), and the questionnaire intake of submit_questionnaire with   *)
(* validate_answers of prdgen/intake/questionnaire.py (IntakeSpec).        *)
(*                                                                         *)
(* GenSpec is one run of ArtifactGenerator.generate_selected with its      *)
(* nested generate_<artifact> calls and its cache (prdgen/generator.py);   *)
(* FlowSpec drives a PhasedFlowRunner directly through run_phase,          *)
(* approve_phase and reject_phase; LastRaceSpec is the workflow with       *)
(* concurrent service calls on the last phase.                             *)
(***************************************************************************)
EXTENDS Integers, Sequences, FiniteSets, Bags, TLC

\* ---------------------------------------------------------------- bounds
MaxPhaseArtifacts == 1   \* artifacts kept of each phase definition's list
MaxByte == 2             \* bytes 1..MaxByte of the contents given to
                         \* create_snapshot
NumCallers == 2          \* request threads calling the service concurrently
MaxFaults == 1           \* process restarts plus changes made to snapshot
                         \* directories outside the service
RacePhases == 2          \* concurrent callers address phases 1..RacePhases
MaxEdits == 1            \* entries of edited_artifacts in one approve call
MaxSelected == 3         \* artifact types in a set given to resolve
MaxSubmits == 2          \* submit_questionnaire calls on the session
MaxRuns == 2             \* run_phase calls for one phase on a runner used
                         \* directly
MaxGenerateOnly == 1     \* artifact names in a cfg.generate_only that is no
                         \* phase's artifact list
MaxCached == 1           \* artifacts in the cache a generator starts with
MaxContentLen == 1       \* characters of a content saved to a snapshot
                         \* directory by the disk check

\* ------------------------------------------------------- generic helpers
EmptyMap == [x \in {} |-> 0]

Put(m, k, v) == [x \in (DOMAIN m) \cup {k} |-> IF x = k THEN v ELSE m[x]]

Remove(m, ks) == [x \in (DOMAIN m) \ ks |-> m[x]]

Update(m, m2) ==
  [x \in (DOMAIN m) \cup (DOMAIN m2) |-> IF x \in DOMAIN m2 THEN m2[x] ELSE m[x]]

Range(s) == {s[i] : i \in DOMAIN s}

Min(a, b) == IF a < b THEN a ELSE b

\* --------------------------------------------------------- static tables
Phases == 1..3

\* PHASE_DEFINITIONS: the artifacts and the required phase of each phase
PHASE_DEFINITIONS ==
  [p \in Phases |->
     CASE p = 1 -> [name |-> "Foundation", requires_phase |-> 0,
                    artifacts |-> <<"context_summary", "corpus_summary",
                                    "prd", "capabilities">>]
       [] p = 2 -> [name |-> "Planning", requires_phase |-> 1,
                    artifacts |-> <<"capability_cards", "epics",
                                    "features", "roadmap">>]
       [] p = 3 -> [name |-> "Detail", requires_phase |-> 2,
                    artifacts |-> <<"user_stories", "technical_architecture",
                                    "lean_canvas">>]]

get_phase_definition(p) == PHASE_DEFINITIONS[p]

\* the phase's artifact list, cut to the bound
PhaseArtifacts(p) ==
  SubSeq(PHASE_DEFINITIONS[p].artifacts, 1,
         Min(MaxPhaseArtifacts, Len(PHASE_DEFINITIONS[p].artifacts)))

PhaseArtifactSet(p) == Range(PhaseArtifacts(p))

\* ARTIFACT_FILENAMES: artifact type -> file name
ARTIFACT_FILENAMES ==
  [a \in {"context_summary", "corpus_summary", "prd", "capabilities",
          "capability_cards", "epics", "features", "user_stories",
          "lean_canvas", "technical_architecture"} |->
     CASE a = "context_summary" -> "context_summary.md"
       [] a = "corpus_summary" -> "corpus_summary.md"
       [] a = "prd" -> "prd.md"
       [] a = "capabilities" -> "capabilities.md"
       [] a = "capability_cards" -> "capability_cards.md"
       [] a = "epics" -> "epics.md"
       [] a = "features" -> "features.md"
       [] a = "user_stories" -> "user_stories.md"
       [] a = "lean_canvas" -> "lean_canvas.md"
       [] a = "technical_architecture" -> "architecture_reference.md"]

\* the file an artifact name is written to: the table's name, else "{name}.md"
FileNameOf(name) ==
  IF name \in DOMAIN ARTIFACT_FILENAMES
    THEN ARTIFACT_FILENAMES[name]
    ELSE name \o ".md"

\* ------------------------------------------------------ contents, hashes
Bytes == 1..MaxByte

\* what the text-generation backend returns
BackendOutputs == {<<1>>}

RECURSIVE HashFold(_)
\* sha256(content).hexdigest() stands as a polynomial fold of the bytes,
\* one-to-one on the contents used here
HashFold(c) ==
  IF c = <<>> THEN 7
  ELSE (HashFold(SubSeq(c, 1, Len(c) - 1)) * 31 + c[Len(c)]) % 65536

\* the line feed and the carriage return
LF == 10

CR == 13

\* Path.write_text on a POSIX system: "\n" is written as os.linesep, which
\* is "\n", so the characters are written as they are
write_text(content) == content

RECURSIVE read_text(_)
\* Path.read_text: the file is read with universal newlines, "\r\n" and
\* "\r" both come back as "\n"
read_text(content) ==
  IF content = <<>> THEN <<>>
  ELSE IF Head(content) = CR
    THEN IF Len(content) > 1 /\ content[2] = LF
           THEN <<LF>> \o read_text(SubSeq(content, 3, Len(content)))
           ELSE <<LF>> \o read_text(Tail(content))
  ELSE <<Head(content)>> \o read_text(Tail(content))

\* compute_content_hash: a digest of the content's bytes
compute_content_hash(content) == HashFold(content)

\* create_snapshot: the artifacts (copied) and one digest per artifact
create_snapshot(phase_number, artifacts_dict) ==
  [phase_number |-> phase_number,
   artifacts |-> artifacts_dict,
   content_hashes |-> [name \in DOMAIN artifacts_dict |->
                         compute_content_hash(artifacts_dict[name])]]

\* a verification that passes over an artifact without stored digest
verify_snapshot_nohash(snapshot) ==
  \A name \in DOMAIN snapshot.artifacts :
     name \in DOMAIN snapshot.content_hashes
       => compute_content_hash(snapshot.artifacts[name])
            = snapshot.content_hashes[name]

\* verify_snapshot: every artifact has a stored digest equal to its re-hash
verify_snapshot(snapshot) ==
  \A name \in DOMAIN snapshot.artifacts :
     /\ name \in DOMAIN snapshot.content_hashes
     /\ compute_content_hash(snapshot.artifacts[name])
          = snapshot.content_hashes[name]

\* ------------------------------------------------------------------ state
VARIABLES
  sessionStatus,  \* sessions.status of the session
  gate,           \* phase_gates rows, by phase number
  progress,       \* generation_progress rows, by gate and artifact type:
                  \* the status column
  completedAt,    \* generation_progress rows: the completed_at column
  artifactRows,   \* phase_artifacts rows, by gate and artifact type, each
                  \* with the artifact_edits rows that refer to it
  audit,          \* audit_log rows, in insertion order
  files,          \* the session's output directory: file name -> content
  snapDir,        \* the snapshot directory of each phase
  runner,         \* the session's entry of PhaseService._runners
  task,           \* the background generation thread of each phase
  launched,       \* threads started so far for each phase
  calls,          \* the service calls in progress (a bag: two request
                  \* threads may be at the same point of the same call)
  ret,            \* what the call that returned in the last step returned
  restarts,       \* process restarts so far
  tampers,        \* snapshot directory changes so far
  threads,        \* request threads serving the session
  pStage,         \* snapshot check: what was last applied to pSnap
  pInput,         \* snapshot check: the artifact map given to create_snapshot
  pSnap,          \* snapshot check: the snapshot under test
  pVerify,        \* snapshot check: what verify_snapshot answered
  rStage,         \* resolver check: the calls of resolve made so far
  rSel,           \* resolver check: the selected set, in the order the
                  \* first call iterates over it
  rSel2,          \* resolver check: the order the second call iterates in
  rOut,           \* resolver check: the outcome of the first call
  rOut2,          \* resolver check: the outcome of the second call
  dStage,         \* disk check: what was last done with dSnap
  dSnap,          \* disk check: the snapshot given to save_snapshot_to_disk
  dDir,           \* disk check: the directory it was saved to
  dLoaded,        \* disk check: what load_snapshot_from_disk returned
  qAnswers,       \* intake: the answers of the last submit_questionnaire call
  qRet,           \* intake: what that call returned
  qSaved,         \* intake: the questionnaire_responses rows, by question id
  qCalls,         \* intake: submit_questionnaire calls so far
  gen             \* generator check: one run of generate_selected

dbVars == <<sessionStatus, gate, progress, completedAt, artifactRows, audit>>
diskVars == <<files, snapDir>>
procVars == <<runner, task, launched, calls, ret>>
envVars == <<restarts, tampers, threads>>
wfVars == <<dbVars, diskVars, procVars, envVars>>
snapVars == <<pStage, pInput, pSnap, pVerify>>
rVars == <<rStage, rSel, rSel2, rOut, rOut2>>
dVars == <<dStage, dSnap, dDir, dLoaded>>
qVars == <<qAnswers, qRet, qSaved, qCalls>>
gVars == <<gen>>
pVars == <<snapVars, rVars, dVars, qVars, gVars>>
vars == <<wfVars, pVars>>

NoGateRow ==
  [status |-> "absent", overall_progress |-> 0, rejection_count |-> 0,
   snapshot_dir |-> FALSE]

NoMeta ==
  [phase_number |-> 0, content_hashes |-> EmptyMap, artifact_names |-> {}]

\* a snapshot directory: snapshot_meta.json, the artifact files and the
\* backups of originals/, by artifact name
NoDir ==
  [has_meta |-> FALSE, meta |-> NoMeta, files |-> EmptyMap,
   originals |-> EmptyMap]

NoSnapshot ==
  [phase_number |-> 0, artifacts |-> EmptyMap, content_hashes |-> EmptyMap]

\* PhasedFlowRunner.__init__: every phase PENDING, no snapshots, no feedback
\* (phase_feedback holds the phases that have one), no generator
NewRunner(cbPhase) ==
  [exists |-> TRUE, cb_phase |-> cbPhase,
   phase_statuses |-> [p \in Phases |-> "pending"],
   snapshots |-> EmptyMap, phase_artifacts |-> EmptyMap,
   phase_feedback |-> {},
   has_generator |-> FALSE, gen_cache |-> EmptyMap]

NoRunner == [NewRunner(0) EXCEPT !.exists = FALSE]

NoTask ==
  [pc |-> "none", idx |-> 0, cache |-> EmptyMap,
   results |-> EmptyMap, prior_intact |-> TRUE, backend_calls |-> 0]

\* a service call in progress: its operation, its position, its arguments
\* and what it has read
Call(op, pc, N, edits, rc) ==
  [op |-> op, pc |-> pc, phase |-> N, edits |-> edits, rc |-> rc]

\* a request thread is free to take a new call
FreeThread == BagCardinality(calls) < threads

Begin(c) == calls (+) SetToBag({c})

End(c) == calls (-) SetToBag({c})

InProgress(op, pc) == {c \in BagToSet(calls) : c.op = op /\ c.pc = pc}

NoRet ==
  [op |-> "none", phase |-> 0, status |-> "none",
   edits |-> EmptyMap, rejection_count |-> 0]

\* the result of a call: its status ("error" when it raised) and, when it
\* succeeded, the arguments and values the result depends on
Returned(op, p, status, edits, rc) ==
  [op |-> op, phase |-> p, status |-> status,
   edits |-> edits, rejection_count |-> rc]

\* generation_progress.completed_at of a row that was never completed (NULL)
Never == 0

\* PhaseStore.log_event: one audit_log row
AuditRow(event_type, phase_number, artifact_type) ==
  [event_type |-> event_type, phase_number |-> phase_number,
   artifact_type |-> artifact_type]

WfInit ==
  /\ sessionStatus = "intake"
  /\ gate = [p \in Phases |-> NoGateRow]
  /\ progress = [p \in Phases |-> EmptyMap]
  /\ completedAt = [p \in Phases |-> EmptyMap]
  /\ artifactRows = [p \in Phases |-> EmptyMap]
  /\ audit = <<AuditRow("session_created", 0, "")>>
  /\ files = EmptyMap
  /\ snapDir = [p \in Phases |-> NoDir]
  /\ runner = NoRunner
  /\ task = [p \in Phases |-> NoTask]
  /\ launched = [p \in Phases |-> 0]
  /\ calls = EmptyBag
  /\ ret = NoRet
  /\ restarts = 0
  /\ tampers = 0

PIdle ==
  /\ pStage = "idle"
  /\ pInput = EmptyMap
  /\ pSnap = NoSnapshot
  /\ pVerify = "unchecked"

\* the outcome of resolve: a list, or raised (KeyError)
NoOutcome == [raised |-> FALSE, list |-> <<>>]

RIdle ==
  /\ rStage = "idle"
  /\ rSel = <<>>
  /\ rSel2 = <<>>
  /\ rOut = NoOutcome
  /\ rOut2 = NoOutcome

DIdle ==
  /\ dStage = "idle"
  /\ dSnap = NoSnapshot
  /\ dDir = NoDir
  /\ dLoaded = NoSnapshot

QIdle ==
  /\ qAnswers = EmptyMap
  /\ qRet = [status |-> "none", errors |-> <<>>]
  /\ qSaved = EmptyMap
  /\ qCalls = 0

\* no run of generate_selected: the configuration, the selected set, the
\* list still to generate, the stack of generate_<artifact> calls, the
\* generator's cache and the artifact of the backend call just issued
NoRun ==
  [stage |-> "idle", enable_context_summary |-> FALSE, generate_only |-> {},
   selected |-> {}, to_generate |-> <<>>, stack |-> <<>>, cache |-> EmptyMap,
   issued |-> ""]

GIdle == gen = NoRun

\* one request thread serves the session
Init == WfInit /\ PIdle /\ RIdle /\ DIdle /\ QIdle /\ GIdle /\ threads = 1

\* start_phase: the session status f"phase_{phase_number}"
SessionPhaseStatus(N) ==
  CASE N = 1 -> "phase_1" [] N = 2 -> "phase_2" [] N = 3 -> "phase_3"

\* ------------------------------------------------ PhaseService.start_phase
\* a weaker prior-phase check, which admits a prior gate in review
PriorApprovedOrReview(g, N) ==
  \/ get_phase_definition(N).requires_phase = 0
  \/ g[get_phase_definition(N).requires_phase].status \in {"approved", "review"}

\* start_phase, prior-phase check: the phase needs no prior phase, or the
\* prior phase's gate row exists with status 'approved'
PriorApproved(g, N) ==
  \/ get_phase_definition(N).requires_phase = 0
  \/ g[get_phase_definition(N).requires_phase].status = "approved"

\* an INSERT OR REPLACE, which succeeds whether or not the phase has a row
InsertOrReplaceGate(g, N) == TRUE

\* create_phase_gate: the INSERT succeeds when UNIQUE(session_id,
\* phase_number) holds, that is when the phase has no row yet
create_phase_gate(g, N) == g[N].status = "absent"

\* start_phase up to the prior-phase check
StartCheck(N) ==
  /\ FreeThread
  /\ IF PriorApproved(gate, N)
       THEN /\ calls' = Begin(Call("start", "create", N, EmptyMap, 0))
            /\ ret' = NoRet
       ELSE /\ ret' = Returned("start", N, "error", EmptyMap, 0)
            /\ UNCHANGED calls
  /\ UNCHANGED <<dbVars, diskVars, runner, task, launched, envVars, pVars>>

\* start_phase from create_phase_gate to thread.start() and the return
StartCreate(c) ==
  /\ c \in InProgress("start", "create")
  /\ LET N == c.phase IN
     IF create_phase_gate(gate, N)
       THEN /\ gate' = [gate EXCEPT ![N] =
                 [NoGateRow EXCEPT !.status = "generating"]]
            /\ progress' = [progress EXCEPT ![N] =
                 [a \in PhaseArtifactSet(N) |-> "pending"]]
            /\ completedAt' = [completedAt EXCEPT ![N] =
                 [a \in PhaseArtifactSet(N) |-> Never]]
            /\ sessionStatus' = SessionPhaseStatus(N)
            /\ audit' = Append(audit, AuditRow("phase_generation_started", N, ""))
            /\ task' = [task EXCEPT ![N] = [NoTask EXCEPT !.pc = "start"]]
            /\ launched' = [launched EXCEPT ![N] = @ + 1]
            /\ ret' = Returned("start", N, "generating", EmptyMap, 0)
            /\ UNCHANGED artifactRows
       ELSE /\ ret' = Returned("start", N, "error", EmptyMap, 0)
            /\ UNCHANGED <<dbVars, task, launched>>
  /\ calls' = End(c)
  /\ UNCHANGED <<diskVars, runner, envVars, pVars>>

\* ---------------------------------------------- snapshot directory on disk
\* ArtifactType: the values of the enum (ArtifactType(name) raises otherwise)
ArtifactType == DOMAIN ARTIFACT_FILENAMES

\* the artifact names in use: the types of the enum and the names the phase
\* definitions list
KnownNames ==
  ArtifactType \cup UNION {Range(PHASE_DEFINITIONS[p].artifacts) : p \in Phases}

\* save_snapshot_to_disk: one file per artifact, then snapshot_meta.json
save_snapshot_to_disk(snapshot, dir) ==
  LET names == DOMAIN snapshot.artifacts
      written == [f \in {FileNameOf(n) : n \in names} |->
                    write_text(snapshot.artifacts[CHOOSE n \in names :
                                                      FileNameOf(n) = f])]
  IN [has_meta |-> TRUE,
      meta |-> [phase_number |-> snapshot.phase_number,
                content_hashes |-> snapshot.content_hashes,
                artifact_names |-> names],
      files |-> Update(dir.files, written),
      originals |-> dir.originals]

\* a load that reads the metadata and no artifact file
load_snapshot_meta_only(dir) ==
  [phase_number |-> dir.meta.phase_number,
   artifacts |-> EmptyMap,
   content_hashes |-> dir.meta.content_hashes]

\* load_snapshot_from_disk (snapshot_meta.json exists): the artifacts whose
\* file exists, and the digests of the metadata
load_snapshot_from_disk(dir) ==
  LET present == {n \in dir.meta.artifact_names : FileNameOf(n) \in DOMAIN dir.files}
  IN [phase_number |-> dir.meta.phase_number,
      artifacts |-> [n \in present |-> read_text(dir.files[FileNameOf(n)])],
      content_hashes |-> dir.meta.content_hashes]

\* ---------------------------------------------- PhaseService.approve_phase
\* the content a human edit gives an artifact
EditedContent == <<2>>

\* the edited_artifacts a caller may send: new content for the first k
\* artifacts of the phase, k <= MaxEdits
EditChoices(N) ==
  {[n \in Range(SubSeq(PhaseArtifacts(N), 1, Min(k, Len(PhaseArtifacts(N))))) |->
      EditedContent] : k \in 0..MaxEdits}

\* an artifact_edits row with the two digests exchanged
save_artifact_edit_swapped(original_content, edited_content) ==
  [original_hash |-> compute_content_hash(edited_content),
   edited_hash |-> compute_content_hash(original_content)]

\* save_artifact_edit: the artifact_edits row of one edit, with the digests
\* approve_phase computes from the file's content and the edited content
save_artifact_edit(original_content, edited_content) ==
  [original_hash |-> compute_content_hash(original_content),
   edited_hash |-> compute_content_hash(edited_content)]

\* approve_phase, "Handle edits": for every entry whose artifact has a row
\* and a file, back the file up, write the edited content, update the row,
\* insert the artifact_edits row, log the edit
RECURSIVE ApplyEdits(_, _, _, _)
ApplyEdits(st, N, edits, names) ==
  IF names = {} THEN st
  ELSE LET name == CHOOSE n \in names : TRUE
           hit == /\ name \in DOMAIN st.rows
                  /\ FileNameOf(name) \in DOMAIN st.files
           original_content == read_text(st.files[FileNameOf(name)])
           st2 == IF hit
                    THEN [files |-> Put(st.files, FileNameOf(name), edits[name]),
                          originals |-> Put(st.originals, name, original_content),
                          rows |-> Put(st.rows, name,
                                       [content_hash |-> compute_content_hash(edits[name]),
                                        was_edited |-> TRUE,
                                        edits |-> Append(st.rows[name].edits,
                                                    save_artifact_edit(original_content,
                                                                       edits[name]))]),
                          audit |-> Append(st.audit, AuditRow("artifact_edited", N, name))]
                    ELSE st
       IN ApplyEdits(st2, N, edits, names \ {name})

\* a status check that also lets an approved gate pass
InReviewOrApproved(g, N) == g[N].status \in {"review", "approved"}

\* approve_phase and reject_phase, status check: the gate row exists and
\* its status is 'review'
InReview(g, N) == g[N].status = "review"

\* approve_phase up to the status check (get_phase_gate)
ApproveCheck(N, edits) ==
  /\ FreeThread
  /\ IF InReview(gate, N)
       THEN /\ calls' = Begin(Call("approve", "write", N, edits, 0))
            /\ ret' = NoRet
       ELSE /\ ret' = Returned("approve", N, "error", EmptyMap, 0)
            /\ UNCHANGED calls
  /\ UNCHANGED <<dbVars, diskVars, runner, task, launched, envVars, pVars>>

\* PhasedFlowRunner.approve_phase: edits, snapshot, save, APPROVED
RunnerApprove(r, N, edits, dirs) ==
  LET artifacts0 == IF N \in DOMAIN r.phase_artifacts
                      THEN r.phase_artifacts[N] ELSE EmptyMap
      applied == {n \in DOMAIN edits : n \in ArtifactType /\ n \in DOMAIN artifacts0}
      artifacts == [n \in DOMAIN artifacts0 |->
                      IF n \in applied THEN edits[n] ELSE artifacts0[n]]
      snapshot == create_snapshot(N, artifacts)
  IN [runner |-> [r EXCEPT
                    !.gen_cache = IF r.has_generator
                                    THEN Update(@, [n \in applied |-> edits[n]])
                                    ELSE @,
                    !.snapshots = Put(@, N, snapshot),
                    !.phase_statuses[N] = "approved"],
      dirs |-> [dirs EXCEPT ![N] = save_snapshot_to_disk(snapshot, @)]]

\* approve_phase after the status check: the edits, the runner's approval
\* when the session has a runner (it raises unless the runner has the phase
\* in review), the gate update, the audit event, the session's completion
ApproveWrite(c) ==
  /\ c \in InProgress("approve", "write")
  /\ LET N == c.phase
         st == ApplyEdits([files |-> files, originals |-> snapDir[N].originals,
                           rows |-> artifactRows[N], audit |-> audit],
                          N, c.edits, DOMAIN c.edits)
         dirs == [snapDir EXCEPT ![N].originals = st.originals]
         raises == runner.exists /\ runner.phase_statuses[N] # "review"
         res == IF runner.exists /\ ~raises
                  THEN RunnerApprove(runner, N, c.edits, dirs)
                  ELSE [runner |-> runner, dirs |-> dirs]
     IN /\ files' = st.files
        /\ artifactRows' = [artifactRows EXCEPT ![N] = st.rows]
        /\ runner' = res.runner
        /\ snapDir' = res.dirs
        /\ IF raises
             THEN /\ audit' = st.audit
                  /\ ret' = Returned("approve", N, "error", EmptyMap, 0)
                  /\ UNCHANGED <<gate, sessionStatus>>
             ELSE /\ gate' = [gate EXCEPT ![N].status = "approved",
                                          ![N].snapshot_dir = TRUE]
                  /\ audit' = IF N = 3
                                THEN st.audit \o <<AuditRow("phase_approved", N, ""),
                                                   AuditRow("session_completed", 0, "")>>
                                ELSE Append(st.audit, AuditRow("phase_approved", N, ""))
                  /\ sessionStatus' = IF N = 3 THEN "completed" ELSE sessionStatus
                  /\ ret' = Returned("approve", N, "approved", c.edits, 0)
  /\ calls' = End(c)
  /\ UNCHANGED <<progress, completedAt, task, launched, envVars, pVars>>

\* ----------------------------------------------- PhaseService.reject_phase
\* reject_phase up to the status check; the new count is computed from the
\* row that was read
RejectCheck(N) ==
  /\ FreeThread
  /\ IF InReview(gate, N)
       THEN /\ calls' = Begin(Call("reject", "write", N, EmptyMap,
                                   gate[N].rejection_count + 1))
            /\ ret' = NoRet
       ELSE /\ ret' = Returned("reject", N, "error", EmptyMap, 0)
            /\ UNCHANGED calls
  /\ UNCHANGED <<dbVars, diskVars, runner, task, launched, envVars, pVars>>

\* PhasedFlowRunner.reject_phase: REJECTED, the phase's cache entries and
\* stored artifacts dropped
RunnerReject(r, N) ==
  [r EXCEPT !.phase_statuses[N] = "rejected",
            !.phase_feedback = @ \cup {N},
            !.gen_cache = IF r.has_generator
                            THEN Remove(@, Range(get_phase_definition(N).artifacts))
                            ELSE @,
            !.phase_artifacts = Remove(@, {N})]

\* reject_phase after the status check: update_phase_gate, log_event, then
\* the runner's rejection when the session has a runner (it raises unless
\* the runner has the phase in review)
RejectWrite(c) ==
  /\ c \in InProgress("reject", "write")
  /\ LET N == c.phase IN
     /\ gate' = [gate EXCEPT ![N].status = "rejected",
                             ![N].rejection_count = c.rc]
     /\ audit' = Append(audit, AuditRow("phase_rejected", N, ""))
     /\ IF runner.exists /\ runner.phase_statuses[N] # "review"
          THEN /\ ret' = Returned("reject", N, "error", EmptyMap, 0)
               /\ UNCHANGED runner
          ELSE /\ runner' = IF runner.exists THEN RunnerReject(runner, N) ELSE runner
               /\ ret' = Returned("reject", N, "rejected", EmptyMap, c.rc)
  /\ calls' = End(c)
  /\ UNCHANGED <<sessionStatus, progress, completedAt, artifactRows, diskVars, task, launched,
                 envVars, pVars>>

\* ------------------------------------------------- background generation
\* generate_selected: the artifacts named by cfg.generate_only plus
\* CONTEXT_SUMMARY are the selected ones
Selected(N) == PhaseArtifactSet(N) \cup {"context_summary"}

RECURSIVE ResolvedOrder(_)
\* generate_selected, to_generate: the selected artifacts and their
\* prerequisites (the artifacts of the earlier phases), in generation order
ResolvedOrder(N) ==
  IF N = 0 THEN <<>> ELSE ResolvedOrder(N - 1) \o PhaseArtifacts(N)

\* generate_selected: generate_context_summary() first, then to_generate
GenerationPlan(N) == <<"context_summary">> \o ResolvedOrder(N)

\* datetime.now(timezone.utc) as the generation threads read it, at the
\* granularity of generation runs: the number of threads launched so far
now == launched[1] + launched[2] + launched[3]

\* progress_cb of _run_phase_generation, bound to the gate and the phase of
\* the task that created the runner
progress_cb(st, cbp, a, status) ==
  LET prog == IF a \in DOMAIN st.progress[cbp]
                THEN [st.progress EXCEPT ![cbp][a] = status]
                ELSE st.progress
      done == IF a \in DOMAIN st.progress[cbp] /\ status \in {"completed", "cached"}
                THEN [st.completed_at EXCEPT ![cbp][a] = now]
                ELSE st.completed_at
      completed == Cardinality({x \in DOMAIN prog[cbp] :
                                  prog[cbp][x] \in {"completed", "cached"}})
      total == Len(PhaseArtifacts(cbp))
      overall == IF total > 0 THEN (completed * 100) \div total ELSE 0
  IN [progress |-> prog,
      completed_at |-> done,
      gate |-> [st.gate EXCEPT ![cbp].overall_progress = overall],
      audit |-> IF status = "completed"
                  THEN Append(st.audit, AuditRow("artifact_generated", cbp, a))
                  ELSE st.audit]

DbNow == [progress |-> progress, completed_at |-> completedAt, gate |-> gate,
          audit |-> audit]

\* an except branch that leaves the gate as it is
KeepGenerating(g, N) == g

\* _background_generate, except branch: the gate becomes 'failed'
mark_failed(g, N) == [g EXCEPT ![N].status = "failed"]

\* _background_generate, except branch, with the audit event
Fail(g, log, N) ==
  [gate |-> mark_failed(g, N),
   audit |-> Append(log, AuditRow("phase_generation_failed", N, ""))]

\* a step of _run_phase_generation before the runner exists raises
\* (get_session, ingest_folder, load_provider)
TaskSetupRaise(N) ==
  /\ task[N].pc = "start"
  /\ gate' = Fail(gate, audit, N).gate
  /\ audit' = Fail(gate, audit, N).audit
  /\ task' = [task EXCEPT ![N].pc = "failed"]
  /\ ret' = NoRet
  /\ UNCHANGED <<sessionStatus, progress, completedAt, artifactRows, diskVars, runner, launched,
                 calls, envVars, pVars>>

\* every artifact the metadata records has its file, with the recorded digest
Intact(dir) ==
  /\ dir.has_meta
  /\ \A n \in dir.meta.artifact_names :
        /\ n \in DOMAIN dir.meta.content_hashes
        /\ FileNameOf(n) \in DOMAIN dir.files
        /\ compute_content_hash(dir.files[FileNameOf(n)]) = dir.meta.content_hashes[n]

RECURSIVE LoadPriors(_, _, _)
\* _run_phase_generation, "load prior snapshots into runner": for the prior
\* phases pn..N-1 whose gate has a snapshot_dir, the snapshot read from disk
\* is put in the runner with the gate's status; raised when a directory has
\* no snapshot_meta.json
LoadPriors(st, pn, N) ==
  IF pn >= N \/ st.raised THEN st
  ELSE LET prior == gate[pn]
           st2 == IF prior.status # "absent" /\ prior.snapshot_dir
                    THEN IF ~snapDir[pn].has_meta
                           THEN [st EXCEPT !.raised = TRUE]
                           ELSE [st EXCEPT
                                   !.runner.snapshots =
                                      Put(@, pn, load_snapshot_from_disk(snapDir[pn])),
                                   !.runner.phase_statuses[pn] =
                                      IF prior.status = "approved"
                                        THEN "approved" ELSE "pending"]
                    ELSE st
       IN LoadPriors(st2, pn + 1, N)

RECURSIVE get_prior_snapshots(_, _)
\* get_prior_snapshots: the artifacts of the snapshots of phases 1..N-1,
\* later phases overriding; not ok when one is missing or fails verification
get_prior_snapshots(N, session_snapshots) ==
  IF N <= 1 THEN [ok |-> TRUE, artifacts |-> EmptyMap]
  ELSE LET before == get_prior_snapshots(N - 1, session_snapshots)
           pn == N - 1
       IN IF ~before.ok THEN before
          ELSE IF pn \notin DOMAIN session_snapshots
                 THEN [ok |-> FALSE, artifacts |-> EmptyMap]
          ELSE IF ~verify_snapshot(session_snapshots[pn])
                 THEN [ok |-> FALSE, artifacts |-> EmptyMap]
          ELSE [ok |-> TRUE,
                artifacts |-> Update(before.artifacts, session_snapshots[pn].artifacts)]

\* ArtifactCache.load_from_disk: every artifact type whose file exists in
\* the output directory with a non-blank content
load_from_disk(fs) ==
  LET present == {a \in ArtifactType :
                    /\ FileNameOf(a) \in DOMAIN fs
                    /\ fs[FileNameOf(a)] # <<>>}
  IN [a \in present |-> read_text(fs[FileNameOf(a)])]

\* a seeding that leaves the generator with an empty cache
SeedNothing(cache, prior_artifacts) == EmptyMap

\* run_phase, cache seeding: set() for every snapshot artifact whose name
\* is an ArtifactType
SeedCache(cache, prior_artifacts) ==
  Update(cache, [n \in (DOMAIN prior_artifacts) \cap ArtifactType |-> prior_artifacts[n]])

\* every snapshot directory of the phases before N is as its approval left it
PriorIntact(N) == \A pn \in 1..(N - 1) : Intact(snapDir[pn])

\* _run_phase_generation from "Create or get runner" and the prior
\* snapshots to run_phase up to generate_selected
TaskSetup(N) ==
  /\ task[N].pc = "start"
  /\ LET r0 == IF runner.exists THEN runner ELSE NewRunner(N)
         loaded == LoadPriors([runner |-> r0, raised |-> FALSE], 1, N)
         r1 == loaded.runner
         req == get_phase_definition(N).requires_phase
         unmet == req # 0 /\ r1.phase_statuses[req] # "approved"
         prior == get_prior_snapshots(N, r1.snapshots)
         failed == loaded.raised \/ unmet \/ ~prior.ok
     IN /\ runner' = IF loaded.raised \/ unmet THEN r1
                     ELSE [r1 EXCEPT !.phase_statuses[N] = "generating"]
        /\ gate' = IF failed THEN Fail(gate, audit, N).gate ELSE gate
        /\ audit' = IF failed THEN Fail(gate, audit, N).audit ELSE audit
        /\ task' = [task EXCEPT ![N] =
             IF failed THEN [@ EXCEPT !.pc = "failed"]
             ELSE [@ EXCEPT !.pc = "gen", !.idx = 1,
                            !.prior_intact = PriorIntact(N),
                            !.cache = SeedCache(load_from_disk(files), prior.artifacts)]]
  /\ ret' = NoRet
  /\ UNCHANGED <<sessionStatus, progress, completedAt, artifactRows, diskVars, launched, calls,
                 envVars, pVars>>

\* the answer of ArtifactCache.get for a type the cache does not hold (None)
NoContent == <<-1>>

\* a has() that never finds an entry
cache_has_never(cache, artifact_type) == FALSE

\* ArtifactCache.has: artifact_type in self.cache
cache_has(cache, artifact_type) == artifact_type \in DOMAIN cache

\* ArtifactCache.get: self.cache.get(artifact_type)
cache_get(cache, artifact_type) ==
  IF artifact_type \in DOMAIN cache THEN cache[artifact_type] ELSE NoContent

\* the position after the artifact at idx
Advance(t, N) ==
  [t EXCEPT !.idx = @ + 1,
            !.pc = IF t.idx + 1 > Len(GenerationPlan(N)) THEN "finish" ELSE "gen"]

\* generate_<artifact>, cache hit: reported as completed, no backend call
TaskGenCached(N) ==
  /\ task[N].pc = "gen"
  /\ LET a == GenerationPlan(N)[task[N].idx]
         st == progress_cb(DbNow, runner.cb_phase, a, "completed")
     IN /\ cache_has(task[N].cache, a)
        /\ progress' = st.progress
        /\ completedAt' = st.completed_at
        /\ gate' = st.gate
        /\ audit' = st.audit
        /\ task' = [task EXCEPT ![N] =
              Advance([@ EXCEPT !.results =
                         IF a \in Selected(N)
                           THEN Put(@, a, cache_get(task[N].cache, a)) ELSE @], N)]
  /\ ret' = NoRet
  /\ UNCHANGED <<sessionStatus, artifactRows, diskVars, runner, launched, calls,
                 envVars, pVars>>

\* generate_<artifact>, cache miss, the backend call returns: "processing"
\* report, cache.set, _save_artifact, "completed" report
TaskGenCall(N, content) ==
  /\ task[N].pc = "gen"
  /\ LET a == GenerationPlan(N)[task[N].idx]
         st == progress_cb(progress_cb(DbNow, runner.cb_phase, a, "processing"),
                           runner.cb_phase, a, "completed")
     IN /\ ~cache_has(task[N].cache, a)
        /\ progress' = st.progress
        /\ completedAt' = st.completed_at
        /\ gate' = st.gate
        /\ audit' = st.audit
        /\ files' = IF a \in DOMAIN ARTIFACT_FILENAMES
                      THEN Put(files, FileNameOf(a), content) ELSE files
        /\ task' = [task EXCEPT ![N] =
              Advance([@ EXCEPT !.backend_calls = @ + 1,
                                !.cache = Put(@, a, content),
                                !.results = IF a \in Selected(N)
                                              THEN Put(@, a, content) ELSE @], N)]
  /\ ret' = NoRet
  /\ UNCHANGED <<sessionStatus, artifactRows, snapDir, runner, launched, calls,
                 envVars, pVars>>

\* generate_<artifact>, cache miss, the backend call raises: "processing"
\* report, then the exception reaches _background_generate
TaskGenRaise(N) ==
  /\ task[N].pc = "gen"
  /\ LET a == GenerationPlan(N)[task[N].idx]
         st == progress_cb(DbNow, runner.cb_phase, a, "processing")
     IN /\ ~cache_has(task[N].cache, a)
        /\ progress' = st.progress
        /\ completedAt' = st.completed_at
        /\ gate' = Fail(st.gate, st.audit, N).gate
        /\ audit' = Fail(st.gate, st.audit, N).audit
        /\ task' = [task EXCEPT ![N].pc = "failed", ![N].backend_calls = @ + 1]
  /\ ret' = NoRet
  /\ UNCHANGED <<sessionStatus, artifactRows, diskVars, runner, launched, calls,
                 envVars, pVars>>

\* run_phase after generate_selected, "Persist artifacts", "Mark phase as
\* ready for review"
TaskFinish(N) ==
  /\ task[N].pc = "finish"
  /\ LET results == task[N].results IN
     /\ runner' = [runner EXCEPT !.phase_artifacts = Put(@, N, results),
                                 !.phase_statuses[N] = "review",
                                 !.has_generator = TRUE,
                                 !.gen_cache = task[N].cache]
     /\ files' = Update(files,
          [f \in {FileNameOf(a) : a \in DOMAIN results} |->
             results[CHOOSE a \in DOMAIN results : FileNameOf(a) = f]])
     /\ artifactRows' = [artifactRows EXCEPT ![N] =
          Update(@, [a \in DOMAIN results |->
                       [content_hash |-> compute_content_hash(results[a]),
                        was_edited |-> FALSE, edits |-> <<>>]])]
     /\ gate' = [gate EXCEPT ![N].status = "review", ![N].overall_progress = 100]
     /\ audit' = Append(audit, AuditRow("phase_review_ready", N, ""))
  /\ task' = [task EXCEPT ![N].pc = "done", ![N].cache = EmptyMap]
  /\ ret' = NoRet
  /\ UNCHANGED <<sessionStatus, progress, completedAt, snapDir, launched, calls, envVars, pVars>>

\* ------------------------------------------------------------ environment
\* the process stops between two requests and starts again: the daemon
\* threads end, the runner registry is empty, the database and files stay
Restart ==
  /\ restarts + tampers < MaxFaults
  /\ calls = EmptyBag
  /\ restarts' = restarts + 1
  /\ runner' = NoRunner
  /\ task' = [p \in Phases |->
                IF task[p].pc \in {"none", "done", "failed", "dead"}
                  THEN task[p] ELSE [task[p] EXCEPT !.pc = "dead"]]
  /\ ret' = NoRet
  /\ UNCHANGED <<dbVars, diskVars, launched, calls, tampers, threads, pVars>>

\* no call and no generation thread is in progress
Quiescent ==
  /\ calls = EmptyBag
  /\ \A p \in Phases : task[p].pc \in {"none", "done", "failed", "dead"}

\* the content of a file that was overwritten outside the service
AlteredContent == <<0>>

\* a file of a snapshot directory is deleted outside the service
TamperDeleteFile(p, f) ==
  /\ restarts + tampers < MaxFaults /\ Quiescent
  /\ f \in DOMAIN snapDir[p].files
  /\ snapDir' = [snapDir EXCEPT ![p].files = Remove(@, {f})]
  /\ tampers' = tampers + 1
  /\ ret' = NoRet
  /\ UNCHANGED <<dbVars, files, runner, task, launched, calls, restarts, threads, pVars>>

\* a file of a snapshot directory is overwritten outside the service
TamperAlterFile(p, f) ==
  /\ restarts + tampers < MaxFaults /\ Quiescent
  /\ f \in DOMAIN snapDir[p].files
  /\ snapDir' = [snapDir EXCEPT ![p].files[f] = AlteredContent]
  /\ tampers' = tampers + 1
  /\ ret' = NoRet
  /\ UNCHANGED <<dbVars, files, runner, task, launched, calls, restarts, threads, pVars>>

\* a snapshot directory loses its snapshot_meta.json outside the service
TamperDeleteMeta(p) ==
  /\ restarts + tampers < MaxFaults /\ Quiescent
  /\ snapDir[p].has_meta
  /\ snapDir' = [snapDir EXCEPT ![p].has_meta = FALSE, ![p].meta = NoMeta]
  /\ tampers' = tampers + 1
  /\ ret' = NoRet
  /\ UNCHANGED <<dbVars, files, runner, task, launched, calls, restarts, threads, pVars>>

\* ---------------------------------------------------- read-only requests
\* get_phase_review: the artifact files of a gate in review or approved are
\* read
GetPhaseReview(N) ==
  /\ FreeThread
  /\ gate[N].status \in {"review", "approved"}
  /\ UNCHANGED vars

\* download_phase_snapshot: the snapshot directory of a gate that has one is
\* archived into a ZIP file next to it
DownloadSnapshot(N) ==
  /\ FreeThread
  /\ gate[N].status # "absent" /\ gate[N].snapshot_dir
  /\ UNCHANGED vars

\* export_assessment_pack: with all three gates approved, the artifact files
\* are copied to a temporary directory and archived
ExportPack ==
  /\ FreeThread
  /\ \A p \in Phases : gate[p].status = "approved"
  /\ UNCHANGED vars

ReadStep ==
  \/ \E N \in Phases : GetPhaseReview(N)
  \/ \E N \in Phases : DownloadSnapshot(N)
  \/ ExportPack

\* ------------------------------------------------- the service's behaviour
\* a step of a request thread, the phase number of a new call taken from PS
CallStep(PS) ==
  \/ \E N \in PS : StartCheck(N)
  \/ \E N \in PS : \E edits \in EditChoices(N) : ApproveCheck(N, edits)
  \/ \E N \in PS : RejectCheck(N)
  \/ \E c \in BagToSet(calls) : StartCreate(c)
  \/ \E c \in BagToSet(calls) : ApproveWrite(c)
  \/ \E c \in BagToSet(calls) : RejectWrite(c)

\* a step of the generation thread of phase N
TaskStep(N) ==
  \/ TaskSetup(N)
  \/ TaskSetupRaise(N)
  \/ TaskGenCached(N)
  \/ \E content \in BackendOutputs : TaskGenCall(N, content)
  \/ TaskGenRaise(N)
  \/ TaskFinish(N)

TaskSteps == \E N \in Phases : TaskStep(N)

TamperStep ==
  \E p \in Phases :
    \/ \E f \in DOMAIN snapDir[p].files : TamperDeleteFile(p, f)
    \/ \E f \in DOMAIN snapDir[p].files : TamperAlterFile(p, f)
    \/ TamperDeleteMeta(p)

\* one request at a time, restarts and changes to the snapshot directories
Next == CallStep(Phases) \/ TaskSteps \/ ReadStep \/ Restart \/ TamperStep

Spec == Init /\ [][Next]_vars

\* NumCallers request threads, the process stays up
RaceInit ==
  WfInit /\ PIdle /\ RIdle /\ DIdle /\ QIdle /\ GIdle /\ threads = NumCallers

RaceNext == CallStep(Phases \cap (1..RacePhases)) \/ TaskSteps

RaceSpec == RaceInit /\ [][RaceNext]_vars

\* NumCallers request threads, the process stays up; the calls for phases
\* 1 and 2 come one at a time, the calls for phase 3 at any time
LastRaceNext ==
  \/ calls = EmptyBag /\ CallStep(Phases)
  \/ CallStep({3})
  \/ TaskSteps

LastRaceSpec == RaceInit /\ [][LastRaceNext]_vars

\* one request at a time, the process stays up, every generation thread
\* that can take a step eventually takes one
LiveNext == CallStep(Phases) \/ TaskSteps

LiveSpec ==
  /\ Init
  /\ [][LiveNext]_vars
  /\ \A N \in Phases : WF_vars(TaskStep(N))

\* ------------------------------------- PhasedFlowRunner used directly
\* runner = PhasedFlowRunner(flow_type, answers, cfg, loaded, docs), with
\* the configuration the service uses (use_cache, cache_dir = output_dir,
\* save_incremental) and no progress callback
FlowNew ==
  /\ ~runner.exists
  /\ runner' = NewRunner(0)
  /\ UNCHANGED <<dbVars, diskVars, task, launched, calls, ret, envVars, pVars>>

\* no run_phase call is in progress
NoRunInProgress == \A p \in Phases : task[p].pc \in {"none", "done", "failed"}

\* runner.run_phase(N) for a phase that is pending or rejected, up to
\* generate_selected: the prerequisite check, GENERATING, a fresh generator
\* (its cache loaded from the cache directory), the cache seeded with the
\* prior snapshots
FlowRunPhase(N) ==
  /\ runner.exists /\ NoRunInProgress
  /\ runner.phase_statuses[N] \in {"pending", "rejected"}
  /\ launched[N] < MaxRuns
  /\ LET req == get_phase_definition(N).requires_phase
         unmet == req # 0 /\ runner.phase_statuses[req] # "approved"
         prior == get_prior_snapshots(N, runner.snapshots)
     IN /\ runner' = IF unmet THEN runner
                     ELSE [runner EXCEPT !.phase_statuses[N] = "generating"]
        /\ task' = [task EXCEPT ![N] =
             IF unmet \/ ~prior.ok THEN [NoTask EXCEPT !.pc = "failed"]
             ELSE [NoTask EXCEPT !.pc = "gen", !.idx = 1,
                                 !.cache = SeedCache(load_from_disk(files),
                                                     prior.artifacts)]]
        /\ launched' = [launched EXCEPT ![N] = @ + 1]
  /\ UNCHANGED <<dbVars, diskVars, calls, ret, envVars, pVars>>

\* generate_<artifact>, cache hit: no backend call
FlowGenCached(N) ==
  /\ task[N].pc = "gen"
  /\ LET a == GenerationPlan(N)[task[N].idx] IN
     /\ cache_has(task[N].cache, a)
     /\ task' = [task EXCEPT ![N] =
           Advance([@ EXCEPT !.results =
                      IF a \in Selected(N)
                        THEN Put(@, a, cache_get(task[N].cache, a)) ELSE @], N)]
  /\ UNCHANGED <<dbVars, diskVars, runner, launched, calls, ret, envVars, pVars>>

\* generate_<artifact>, cache miss, the backend call returns: cache.set,
\* _save_artifact
FlowGenCall(N, content) ==
  /\ task[N].pc = "gen"
  /\ LET a == GenerationPlan(N)[task[N].idx] IN
     /\ ~cache_has(task[N].cache, a)
     /\ files' = IF a \in DOMAIN ARTIFACT_FILENAMES
                   THEN Put(files, FileNameOf(a), content) ELSE files
     /\ task' = [task EXCEPT ![N] =
           Advance([@ EXCEPT !.backend_calls = @ + 1,
                             !.cache = Put(@, a, content),
                             !.results = IF a \in Selected(N)
                                           THEN Put(@, a, content) ELSE @], N)]
  /\ UNCHANGED <<dbVars, snapDir, runner, launched, calls, ret, envVars, pVars>>

\* generate_<artifact>, cache miss, the backend call raises: run_phase
\* raises, the phase stays GENERATING
FlowGenRaise(N) ==
  /\ task[N].pc = "gen"
  /\ ~cache_has(task[N].cache, GenerationPlan(N)[task[N].idx])
  /\ task' = [task EXCEPT ![N].pc = "failed", ![N].backend_calls = @ + 1]
  /\ UNCHANGED <<dbVars, diskVars, runner, launched, calls, ret, envVars, pVars>>

\* run_phase after generate_selected, "Store results": REVIEW
FlowRunPhaseEnd(N) ==
  /\ task[N].pc = "finish"
  /\ runner' = [runner EXCEPT !.phase_artifacts = Put(@, N, task[N].results),
                              !.phase_statuses[N] = "review",
                              !.has_generator = TRUE,
                              !.gen_cache = task[N].cache]
  /\ task' = [task EXCEPT ![N].pc = "done", ![N].cache = EmptyMap]
  /\ UNCHANGED <<dbVars, diskVars, launched, calls, ret, envVars, pVars>>

\* runner.approve_phase(N, ...) on a phase in review (it raises otherwise)
FlowApprovePhase(N, edits) ==
  /\ runner.exists /\ runner.phase_statuses[N] = "review"
  /\ runner' = RunnerApprove(runner, N, edits, snapDir).runner
  /\ snapDir' = RunnerApprove(runner, N, edits, snapDir).dirs
  /\ UNCHANGED <<dbVars, files, task, launched, calls, ret, envVars, pVars>>

\* runner.reject_phase(N, feedback) on a phase in review (it raises
\* otherwise)
FlowRejectPhase(N) ==
  /\ runner.exists /\ runner.phase_statuses[N] = "review"
  /\ runner' = RunnerReject(runner, N)
  /\ UNCHANGED <<dbVars, diskVars, task, launched, calls, ret, envVars, pVars>>

FlowNext ==
  \/ FlowNew
  \/ \E N \in Phases :
       \/ FlowRunPhase(N)
       \/ FlowGenCached(N)
       \/ \E content \in BackendOutputs : FlowGenCall(N, content)
       \/ FlowGenRaise(N)
       \/ FlowRunPhaseEnd(N)
       \/ \E edits \in EditChoices(N) : FlowApprovePhase(N, edits)
       \/ FlowRejectPhase(N)

FlowSpec == Init /\ [][FlowNext]_vars

\* --------------------------------------------- snapshot check (pure part)
\* the contents given to create_snapshot: the empty one and the one-byte
\* ones
SnapContents == {<<>>} \cup {<<b>> : b \in Bytes}

\* the artifact maps given to create_snapshot for phase n: a content for
\* some of the artifacts of the phase definition
SnapInputs(n) ==
  UNION {[S -> SnapContents] : S \in SUBSET Range(get_phase_definition(n).artifacts)}

\* snapshot = create_snapshot(n, A)
SnapCreate(n, A) ==
  /\ pStage = "idle"
  /\ pInput' = A
  /\ pSnap' = create_snapshot(n, A)
  /\ pStage' = "created"
  /\ UNCHANGED <<pVerify, wfVars, rVars, dVars, qVars, gVars>>

\* snapshot.artifacts[name] = content, another content than the approved one
SnapReplaceContent(name, content) ==
  /\ pStage = "created" /\ pVerify = "unchecked"
  /\ name \in DOMAIN pSnap.artifacts
  /\ content # pSnap.artifacts[name]
  /\ pSnap' = [pSnap EXCEPT !.artifacts[name] = content]
  /\ pStage' = "replaced"
  /\ UNCHANGED <<pInput, pVerify, wfVars, rVars, dVars, qVars, gVars>>

\* del snapshot.content_hashes[name]
SnapRemoveHash(name) ==
  /\ pStage = "created" /\ pVerify = "unchecked"
  /\ name \in DOMAIN pSnap.artifacts
  /\ name \in DOMAIN pSnap.content_hashes
  /\ pSnap' = [pSnap EXCEPT !.content_hashes = Remove(@, {name})]
  /\ pStage' = "unhashed"
  /\ UNCHANGED <<pInput, pVerify, wfVars, rVars, dVars, qVars, gVars>>

\* verify_snapshot(snapshot)
SnapVerify ==
  /\ pStage # "idle" /\ pVerify = "unchecked"
  /\ pVerify' = IF verify_snapshot(pSnap) THEN "ok" ELSE "bad"
  /\ UNCHANGED <<pStage, pInput, pSnap, wfVars, rVars, dVars, qVars, gVars>>

SnapNext ==
  \/ \E n \in Phases : \E A \in SnapInputs(n) : SnapCreate(n, A)
  \/ \E name \in DOMAIN pSnap.artifacts : \E content \in SnapContents :
        SnapReplaceContent(name, content)
  \/ \E name \in DOMAIN pSnap.artifacts : SnapRemoveHash(name)
  \/ SnapVerify

SnapSpec == Init /\ [][SnapNext]_vars

\* ------------------------------------- ArtifactDependencyResolver (pure)
\* DEPENDENCIES: artifact -> the list of its required predecessors
DEPENDENCIES ==
  [a \in {"corpus_summary", "prd", "capabilities", "capability_cards",
          "epics", "features", "user_stories", "lean_canvas"} |->
     CASE a = "corpus_summary" -> <<>>
       [] a = "prd" -> <<"corpus_summary">>
       [] a = "capabilities" -> <<"corpus_summary", "prd">>
       [] a = "capability_cards" -> <<"corpus_summary", "prd", "capabilities">>
       [] a = "epics" -> <<"corpus_summary", "prd", "capabilities",
                           "capability_cards">>
       [] a = "features" -> <<"corpus_summary", "prd", "epics">>
       [] a = "user_stories" -> <<"corpus_summary", "prd", "epics", "features">>
       [] a = "lean_canvas" -> <<"corpus_summary", "prd", "capabilities">>]

\* an order that is not sorted: capabilities stands before its prerequisites
GENERATION_ORDER_unsorted ==
  <<"capabilities", "corpus_summary", "prd", "capability_cards", "epics",
    "features", "user_stories", "lean_canvas">>

\* GENERATION_ORDER: the canonical generation order
GENERATION_ORDER ==
  <<"corpus_summary", "prd", "capabilities", "capability_cards", "epics",
    "features", "user_stories", "lean_canvas">>

RECURSIVE add_with_deps(_, _)
RECURSIVE AddDeps(_, _, _)
\* resolve, add_with_deps: nothing for an artifact already required; else
\* the dependencies first (DEPENDENCIES[artifact] raises KeyError for an
\* artifact the table has no entry for), then the artifact
add_with_deps(st, artifact) ==
  IF st.raised \/ artifact \in Range(st.required) THEN st
  ELSE IF artifact \notin DOMAIN DEPENDENCIES THEN [st EXCEPT !.raised = TRUE]
  ELSE LET after == AddDeps(st, DEPENDENCIES[artifact], 1)
       IN IF after.raised THEN after
          ELSE [after EXCEPT !.required = Append(@, artifact)]

\* add_with_deps, "for dep in cls.DEPENDENCIES[artifact]"
AddDeps(st, deps, i) ==
  IF i > Len(deps) THEN st
  ELSE AddDeps(add_with_deps(st, deps[i]), deps, i + 1)

RECURSIVE AddSelected(_, _, _)
\* resolve, "for artifact in selected", in the order the set iterates
AddSelected(st, selected, i) ==
  IF i > Len(selected) THEN st
  ELSE AddSelected(add_with_deps(st, selected[i]), selected, i + 1)

\* a resolve that returns the required artifacts in the order it added them
resolve_as_added(selected) ==
  LET st == AddSelected([raised |-> FALSE, required |-> <<>>], selected, 1)
  IN IF st.raised THEN [raised |-> TRUE, list |-> <<>>]
     ELSE [raised |-> FALSE, list |-> st.required]

\* resolve: the required artifacts, in canonical generation order; selected
\* is the set in the order its iteration yields
resolve(selected) ==
  LET st == AddSelected([raised |-> FALSE, required |-> <<>>], selected, 1)
      IsRequired(a) == a \in Range(st.required)
  IN IF st.raised THEN [raised |-> TRUE, list |-> <<>>]
     ELSE [raised |-> FALSE, list |-> SelectSeq(GENERATION_ORDER, IsRequired)]

\* the sets of artifact types given to resolve
SelectedSets == {S \in SUBSET ArtifactType : Cardinality(S) <= MaxSelected}

\* the orders in which the iteration over the set S may yield its elements
IterationOrders(S) ==
  {o \in [1..Cardinality(S) -> S] : Range(o) = S}

\* resolved = ArtifactDependencyResolver.resolve(selected)
ResolveFirst(S, o) ==
  /\ rStage = "idle"
  /\ rSel' = o
  /\ rOut' = resolve(o)
  /\ rStage' = "once"
  /\ UNCHANGED <<rSel2, rOut2, snapVars, dVars, qVars, gVars, wfVars>>

\* resolve called again with the same set
ResolveSecond(o) ==
  /\ rStage = "once"
  /\ rSel2' = o
  /\ rOut2' = resolve(o)
  /\ rStage' = "twice"
  /\ UNCHANGED <<rSel, rOut, snapVars, dVars, qVars, gVars, wfVars>>

ResolveNext ==
  \/ \E S \in SelectedSets : \E o \in IterationOrders(S) : ResolveFirst(S, o)
  \/ \E o \in IterationOrders(Range(rSel)) : ResolveSecond(o)

ResolveSpec == Init /\ [][ResolveNext]_vars

\* ------------------------------------ snapshot directory check (pure part)
\* the characters of the contents saved: the line feed, the carriage
\* return and a letter
DiskChars == {LF, CR, 65}

RECURSIVE SeqsUpTo(_, _)
\* the sequences over S of length at most n
SeqsUpTo(S, n) ==
  IF n = 0 THEN {<<>>}
  ELSE LET shorter == SeqsUpTo(S, n - 1)
       IN shorter \cup {Append(c, x) : c \in shorter, x \in S}

DiskContents == SeqsUpTo(DiskChars, MaxContentLen)

\* the artifact names of the snapshots saved: two values of ArtifactType
\* and a name that is none
DiskNames == {"prd", "technical_architecture", "architecture_reference"}

\* snapshot = create_snapshot(n, A)
DiskCreate(n, A) ==
  /\ dStage = "idle"
  /\ dSnap' = create_snapshot(n, A)
  /\ dStage' = "created"
  /\ UNCHANGED <<dDir, dLoaded, snapVars, rVars, qVars, gVars, wfVars>>

\* save_snapshot_to_disk(snapshot, snapshot_dir), the directory being new
DiskSave ==
  /\ dStage = "created"
  /\ dDir' = save_snapshot_to_disk(dSnap, NoDir)
  /\ dStage' = "saved"
  /\ UNCHANGED <<dSnap, dLoaded, snapVars, rVars, qVars, gVars, wfVars>>

\* load_snapshot_from_disk(snapshot_dir)
DiskLoad ==
  /\ dStage = "saved"
  /\ dLoaded' = load_snapshot_from_disk(dDir)
  /\ dStage' = "loaded"
  /\ UNCHANGED <<dSnap, dDir, snapVars, rVars, qVars, gVars, wfVars>>

DiskNext ==
  \/ \E n \in Phases : \E S \in SUBSET DiskNames : \E A \in [S -> DiskContents] :
        DiskCreate(n, A)
  \/ DiskSave
  \/ DiskLoad

DiskSpec == Init /\ [][DiskNext]_vars

\* ------------------------------------ ArtifactGenerator.generate_selected
\* the generate_<artifact>() calls a generate_<artifact> method makes after
\* its cache check and before its backend call
MethodCalls(a) ==
  CASE a = "prd" -> <<"corpus_summary">>
    [] a = "capabilities" -> <<"prd">>
    [] a = "capability_cards" -> <<"prd", "capabilities">>
    [] a = "epics" -> <<"prd", "capabilities", "capability_cards">>
    [] a = "features" -> <<"prd", "epics">>
    [] a = "user_stories" -> <<"prd", "epics", "features">>
    [] a = "lean_canvas" -> <<"prd", "capabilities">>
    [] a = "roadmap" -> <<"prd", "epics", "features">>
    [] a = "technical_architecture" -> <<"prd", "capabilities">>
    [] OTHER -> <<>>

\* the values of cfg.generate_only: the artifact list of a phase
\* (run_phase), or a set of artifact names
GenerateOnlySets ==
  {Range(PHASE_DEFINITIONS[p].artifacts) : p \in Phases}
    \cup {S \in SUBSET ArtifactType : S # {} /\ Cardinality(S) <= MaxGenerateOnly}

\* the caches a generator may start with: the artifact files found in the
\* cache directory and the artifacts seeded from prior snapshots
StartCaches ==
  {[a \in S |-> <<1>>] : S \in {T \in SUBSET ArtifactType : Cardinality(T) <= MaxCached}}

\* a call of generate_<a>(), at its cache check
Frame(a) == [artifact |-> a, pos |-> 0]

\* generate_selected is called: generate_context_summary() first, if enabled
GenBegin(only, enable, cache) ==
  /\ gen.stage = "idle"
  /\ gen' = [NoRun EXCEPT !.stage = "context",
                          !.enable_context_summary = enable,
                          !.generate_only = only,
                          !.cache = cache,
                          !.stack = IF enable THEN <<Frame("context_summary")>>
                                    ELSE <<>>]
  /\ UNCHANGED <<wfVars, snapVars, rVars, dVars, qVars>>

\* generate_<a>, "if self.cache.has(artifact_type)": a hit returns the
\* cached content, a miss goes on to the method's body
GenCheckCache ==
  /\ gen.stack # <<>>
  /\ LET top == gen.stack[Len(gen.stack)] IN
     /\ top.pos = 0
     /\ gen' = [gen EXCEPT
          !.issued = "",
          !.stack = IF cache_has(gen.cache, top.artifact)
                      THEN SubSeq(@, 1, Len(@) - 1)
                      ELSE [@ EXCEPT ![Len(@)].pos = 1]]
  /\ UNCHANGED <<wfVars, snapVars, rVars, dVars, qVars>>

\* generate_<a>, the next generate_<dependency>() call of its body
GenCallDependency ==
  /\ gen.stack # <<>>
  /\ LET top == gen.stack[Len(gen.stack)] IN
     /\ top.pos >= 1 /\ top.pos <= Len(MethodCalls(top.artifact))
     /\ gen' = [gen EXCEPT
          !.issued = "",
          !.stack = Append([@ EXCEPT ![Len(@)].pos = top.pos + 1],
                           Frame(MethodCalls(top.artifact)[top.pos]))]
  /\ UNCHANGED <<wfVars, snapVars, rVars, dVars, qVars>>

\* generate_<a>, _run_step returns: cache.set, and the method returns
GenBackendReturns(content) ==
  /\ gen.stack # <<>>
  /\ LET top == gen.stack[Len(gen.stack)] IN
     /\ top.pos = Len(MethodCalls(top.artifact)) + 1
     /\ gen' = [gen EXCEPT
          !.issued = top.artifact,
          !.cache = Put(@, top.artifact, content),
          !.stack = SubSeq(@, 1, Len(@) - 1)]
  /\ UNCHANGED <<wfVars, snapVars, rVars, dVars, qVars>>

\* generate_<a>, _run_step raises: the exception leaves generate_selected
GenBackendRaises ==
  /\ gen.stack # <<>>
  /\ LET top == gen.stack[Len(gen.stack)] IN
     /\ top.pos = Len(MethodCalls(top.artifact)) + 1
     /\ gen' = [gen EXCEPT !.issued = top.artifact, !.stage = "raised",
                           !.stack = <<>>]
  /\ UNCHANGED <<wfVars, snapVars, rVars, dVars, qVars>>

\* generate_selected, the selected names once the context summary is there:
\* cfg.generate_only, and CONTEXT_SUMMARY if enabled; none while that point
\* is not reached
SelectedNames ==
  IF gen.stage = "context" /\ gen.stack = <<>>
    THEN gen.generate_only
           \cup (IF gen.enable_context_summary THEN {"context_summary"} ELSE {})
    ELSE {}

\* generate_selected after the context summary: validate_artifact_names
\* (raises ValueError for a name that is no ArtifactType), CONTEXT_SUMMARY
\* added if enabled, resolve (raises KeyError), in the order o in which
\* the set iterates
GenSelect(o) ==
  /\ gen.stage = "context" /\ gen.stack = <<>>
  /\ LET selected == Range(o)
         resolved == resolve(o)
     IN /\ gen' = IF ~(gen.generate_only \subseteq ArtifactType) \/ resolved.raised
                    THEN [gen EXCEPT !.stage = "raised", !.issued = ""]
                    ELSE [gen EXCEPT !.stage = "loop", !.issued = "",
                                     !.selected = selected,
                                     !.to_generate = resolved.list]
  /\ UNCHANGED <<wfVars, snapVars, rVars, dVars, qVars>>

\* generate_selected, "for artifact_type in to_generate": the next
\* generator_map[artifact_type]() call, or the return after the last
GenLoop ==
  /\ gen.stage = "loop" /\ gen.stack = <<>>
  /\ gen' = IF gen.to_generate = <<>>
              THEN [gen EXCEPT !.stage = "done", !.issued = ""]
              ELSE [gen EXCEPT !.issued = "",
                               !.stack = <<Frame(Head(gen.to_generate))>>,
                               !.to_generate = Tail(@)]
  /\ UNCHANGED <<wfVars, snapVars, rVars, dVars, qVars>>

GenNext ==
  \/ \E only \in GenerateOnlySets : \E enable \in BOOLEAN :
       \E cache \in StartCaches : GenBegin(only, enable, cache)
  \/ GenCheckCache
  \/ GenCallDependency
  \/ \E content \in BackendOutputs : GenBackendReturns(content)
  \/ GenBackendRaises
  \/ \E o \in IterationOrders(SelectedNames) : GenSelect(o)
  \/ GenLoop

GenSpec == Init /\ [][GenNext]_vars

\* ------------------------------------------------ questionnaire intake
\* get_questions: the questions of the flow's questionnaire; here a required
\* free-text question, a required single-select one and an optional
\* single-select one
Questions ==
  <<[id |-> "q1", required |-> TRUE, input_type |-> "text", options |-> {}],
    [id |-> "q2", required |-> TRUE, input_type |-> "single_select",
     options |-> {<<"a">>, <<"b">>}],
    [id |-> "q3", required |-> FALSE, input_type |-> "single_select",
     options |-> {<<"a">>, <<"b">>}]>>

QuestionIds == {Questions[i].id : i \in DOMAIN Questions}

\* the texts a caller may send as the answer to the key k, as sequences of
\* characters; "zy" and "zz" are keys of no question
AnswerTexts(k) ==
  CASE k = "q1" -> {<<" ">>, <<"a", " ">>}
    [] k = "q2" -> {<<"a", " ">>, <<"c">>}
    [] k = "q3" -> {<<>>, <<"c">>}
    [] OTHER -> {<<"a">>}

\* the answers a caller may send
AnswerMaps ==
  {A \in UNION {[S -> UNION {AnswerTexts(k) : k \in S}] :
                  S \in SUBSET (QuestionIds \cup {"zy", "zz"})} :
     \A k \in DOMAIN A : A[k] \in AnswerTexts(k)}

RECURSIVE lstrip(_)
lstrip(text) ==
  IF text # <<>> /\ Head(text) = " " THEN lstrip(Tail(text)) ELSE text

RECURSIVE rstrip(_)
rstrip(text) ==
  IF text # <<>> /\ text[Len(text)] = " "
    THEN rstrip(SubSeq(text, 1, Len(text) - 1)) ELSE text

\* str.strip
strip(text) == rstrip(lstrip(text))

\* answers.get(qid, "")
AnswerOf(answers, qid) == IF qid \in DOMAIN answers THEN answers[qid] ELSE <<>>

\* validate_answers, the errors of one question: required and unanswered;
\* a single-select answer that is not one of the options
QuestionErrors(q, answers) ==
  LET answer == strip(AnswerOf(answers, q.id))
  IN (IF q.required /\ answer = <<>>
        THEN <<[kind |-> "unanswered", id |-> q.id]>> ELSE <<>>)
     \o (IF /\ answer # <<>> /\ q.input_type = "single_select"
            /\ q.options # {} /\ answer \notin q.options
           THEN <<[kind |-> "invalid_option", id |-> q.id]>> ELSE <<>>)

RECURSIVE AllQuestionErrors(_, _)
\* validate_answers, "for q in questions"
AllQuestionErrors(i, answers) ==
  IF i > Len(Questions) THEN <<>>
  ELSE QuestionErrors(Questions[i], answers) \o AllQuestionErrors(i + 1, answers)

RECURSIVE UnknownKeyErrors(_)
\* validate_answers, "for key in answers": one error for each key that is
\* no question id
UnknownKeyErrors(keys) ==
  IF keys = {} THEN <<>>
  ELSE LET key == CHOOSE k \in keys : TRUE
       IN (IF key \notin QuestionIds
             THEN <<[kind |-> "unknown_id", id |-> key]>> ELSE <<>>)
          \o UnknownKeyErrors(keys \ {key})

\* a validation that stops at the first error
validate_first_error(answers) ==
  LET errors == AllQuestionErrors(1, answers) \o UnknownKeyErrors(DOMAIN answers)
  IN IF errors = <<>> THEN <<>> ELSE <<Head(errors)>>

\* validate_answers: the list of all errors
validate_answers(answers) ==
  AllQuestionErrors(1, answers) \o UnknownKeyErrors(DOMAIN answers)

\* save_questionnaire: one row for every question, with the answer sent or ""
save_questionnaire(saved, answers) ==
  Update(saved, [qid \in QuestionIds |-> AnswerOf(answers, qid)])

\* submit_questionnaire: validate; with errors return them, else save the
\* answers, set the session status, log the event, return 'ready'
SubmitQuestionnaire(answers) ==
  /\ qCalls < MaxSubmits
  /\ qCalls' = qCalls + 1
  /\ qAnswers' = answers
  /\ LET errors == validate_answers(answers) IN
     IF errors # <<>>
       THEN /\ qRet' = [status |-> "validation_error", errors |-> errors]
            /\ UNCHANGED <<qSaved, sessionStatus, audit>>
       ELSE /\ qSaved' = save_questionnaire(qSaved, answers)
            /\ sessionStatus' = "questionnaire_done"
            /\ audit' = Append(audit, AuditRow("questionnaire_submitted", 0, ""))
            /\ qRet' = [status |-> "ready", errors |-> <<>>]
  /\ UNCHANGED <<gate, progress, completedAt, artifactRows, diskVars, procVars,
                 envVars,
                 snapVars, rVars, dVars, gVars>>

IntakeNext == \E answers \in AnswerMaps : SubmitQuestionnaire(answers)

IntakeSpec == Init /\ [][IntakeNext]_vars

\* ------------------------------------------------------------ properties
\* a start_phase call for phase N raised in this step
StartRaised(N) ==
  ret'.op = "start" /\ ret'.phase = N /\ ret'.status = "error"

\* a start_phase call for phase N passed its prior-phase check in this step
StartAdmitted(N) ==
  calls' = calls (+) SetToBag({Call("start", "create", N, EmptyMap, 0)})

\* the start_phase call c ran from create_phase_gate to its end in this step
StartEnded(c) ==
  /\ c \in BagToSet(calls) /\ c.op = "start"
  /\ calls' = calls (-) SetToBag({c})

\* the step left the gates, the progress rows, the audit log and the
\* generation threads as they were
NothingCreated == UNCHANGED <<gate, progress, completedAt, audit, task, launched>>

\* C1: a start_phase call for phase 2 or 3 made while the gate of the phase
\* before is absent or not 'approved' raises and creates no gate, no
\* progress row, no audit event and no generation thread; a start_phase
\* call that reaches create_phase_gate while that gate is 'approved' (or for
\* phase 1) and the phase has no gate yet returns 'generating' with the
\* gate created in status 'generating'.
C1_StartGuard ==
  [][ /\ \A N \in {2, 3} :
           gate[N - 1].status # "approved"
             => /\ ~StartAdmitted(N)
                /\ (StartRaised(N) => NothingCreated)
      /\ \A N \in Phases :
           (StartRaised(N) /\ calls' = calls)
             => (N > 1 /\ gate[N - 1].status # "approved" /\ NothingCreated)
      /\ \A c \in BagToSet(calls) :
           (/\ StartEnded(c)
            /\ (c.phase = 1 \/ gate[c.phase - 1].status = "approved")
            /\ gate[c.phase].status = "absent")
             => /\ ret'.op = "start" /\ ret'.phase = c.phase
                /\ ret'.status = "generating"
                /\ gate'[c.phase].status = "generating" ]_vars

\* C1 witness: start_phase(2) has raised while the gate of phase 1 is in
\* review, and phase 2 has no gate
C1_Witness ==
  /\ ret.op = "start" /\ ret.phase = 2 /\ ret.status = "error"
  /\ gate[1].status = "review"
  /\ gate[2].status = "absent"

C4_OneTaskPerPhase ==
  [][ /\ \A p \in Phases : launched'[p] <= 1
      /\ \A c \in BagToSet(calls) :
           (StartEnded(c) /\ gate[c.phase].status # "absent")
             => /\ StartRaised(c.phase)
                /\ UNCHANGED <<gate, task, launched>> ]_vars

\* C4 witness: two start_phase calls for phase 1 were in progress together;
\* one has launched the thread, the other is about to reach
\* create_phase_gate
C4_Witness ==
  /\ launched[1] = 1
  /\ BagIn(Call("start", "create", 1, EmptyMap, 0), calls)

C6_VerifyDetectsChange ==
  pVerify # "unchecked"
    => /\ (pStage = "created" => pVerify = "ok")
       /\ (pStage \in {"replaced", "unhashed"} => pVerify = "bad")

\* C6 witness: an artifact's content was replaced and verify_snapshot
\* answered false
C6_Witness ==
  /\ pStage = "replaced"
  /\ pVerify = "bad"
  /\ DOMAIN pSnap.artifacts # {}

\* approve_phase has just returned 'approved'
ApproveReturned == ret.op = "approve" /\ ret.status = "approved"

C8_RejectedOrFailedRestarts ==
  [][\A c \in BagToSet(calls) :
       (StartEnded(c) /\ gate[c.phase].status \in {"rejected", "failed"})
         => /\ ret'.op = "start" /\ ret'.status = "generating"
            /\ gate'[c.phase].status = "generating"
            /\ launched'[c.phase] = launched[c.phase] + 1]_vars

\* the last audit event is the failure of the generation of phase N
FailureLogged(N) ==
  audit[Len(audit)] = AuditRow("phase_generation_failed", N, "")

ApproveSucceeded(c) ==
  /\ c \in BagToSet(calls) /\ c.op = "approve"
  /\ calls' = calls (-) SetToBag({c})
  /\ ret'.op = "approve" /\ ret'.status = "approved"

CurrentArtifact(N) == GenerationPlan(N)[task[N].idx]

\* the phases before N whose gate is approved and whose definition lists a
ApprovedOwners(N, a) ==
  {p \in 1..(N - 1) : gate[p].status = "approved" /\ a \in PhaseArtifactSet(p)}

CacheContents == BackendOutputs \cup {EditedContent, <<>>}

RECURSIVE Prerequisites(_)
\* the transitive prerequisites of an artifact by the DEPENDENCIES table (an
\* artifact without an entry has none)
Prerequisites(a) ==
  IF a \in DOMAIN DEPENDENCIES
    THEN Range(DEPENDENCIES[a])
           \cup UNION {Prerequisites(d) : d \in Range(DEPENDENCIES[a])}
    ELSE {}

\* C14: resolve(S) returns a list, without error, whose elements are
\* exactly the artifacts of S and their transitive prerequisites.
C14_ResolveIsClosure ==
  rStage # "idle"
    => /\ ~rOut.raised
       /\ Range(rOut.list)
            = Range(rSel) \cup UNION {Prerequisites(a) : a \in Range(rSel)}

C16_NotInReviewRaises ==
  [][\A N \in Phases :
       gate[N].status # "review"
         => /\ \A c \in BagToSet(calls') :
                 (c.op \in {"approve", "reject"} /\ c.phase = N)
                   => CopiesIn(c, calls') <= CopiesIn(c, calls)
            /\ (ret' # ret /\ ret'.op \in {"approve", "reject"} /\ ret'.phase = N)
                 => /\ ret'.status = "error"
                    /\ UNCHANGED <<gate, artifactRows, files, snapDir, audit,
                                   runner, sessionStatus>>]_vars

\* C16 witness: reject_phase has raised for a phase approved with an edit;
\* the gate is still approved
C16_Witness ==
  /\ ret.op = "reject" /\ ret.status = "error"
  /\ gate[ret.phase].status = "approved"
  /\ \E a \in DOMAIN artifactRows[ret.phase] : artifactRows[ret.phase][a].was_edited

\* a reject_phase call for phase N returned 'rejected' in this step
RejectSucceeded(N) ==
  /\ \E c \in BagToSet(calls) :
        c.op = "reject" /\ c.phase = N /\ calls' = calls (-) SetToBag({c})
  /\ ret'.op = "reject" /\ ret'.phase = N /\ ret'.status = "rejected"

Persisted(dir) == [has_meta |-> dir.has_meta, meta |-> dir.meta, files |-> dir.files]

C19_SaveLoadRoundTrip ==
  dStage = "loaded"
    => /\ dLoaded.phase_number = dSnap.phase_number
       /\ dLoaded.artifacts = dSnap.artifacts
       /\ dLoaded.content_hashes = dSnap.content_hashes
       /\ \A n1, n2 \in DOMAIN dSnap.artifacts :
             n1 # n2 => FileNameOf(n1) # FileNameOf(n2)

\* the errors the answers A call for: one for every required question
\* without an answer, one for every single-select answer that is none of
\* the options, one for every key that is no question id
ExpectedErrors(A) ==
  {[kind |-> "unanswered", id |-> Questions[i].id] :
     i \in {j \in DOMAIN Questions :
              /\ Questions[j].required
              /\ \/ Questions[j].id \notin DOMAIN A
                 \/ \A k \in DOMAIN A[Questions[j].id] : A[Questions[j].id][k] = " "}}
  \cup {[kind |-> "invalid_option", id |-> Questions[i].id] :
     i \in {j \in DOMAIN Questions :
              /\ Questions[j].input_type = "single_select"
              /\ Questions[j].id \in DOMAIN A
              /\ \E k \in DOMAIN A[Questions[j].id] : A[Questions[j].id][k] # " "
              /\ \A o \in Questions[j].options : strip(A[Questions[j].id]) # o}}
  \cup {[kind |-> "unknown_id", id |-> k] : k \in (DOMAIN A) \ QuestionIds}

\* C20: a submit_questionnaire call returns, in one list without
\* repetition, every error its answers call for; with a non-empty list it
\* returns 'validation_error' and leaves the saved answers, the session
\* status and the audit log as they were; with an empty list, and only
\* then, it returns 'ready'.
C20_AllErrorsReported ==
  [][qCalls' = qCalls + 1
       => /\ Range(qRet'.errors) = ExpectedErrors(qAnswers')
          /\ Len(qRet'.errors) = Cardinality(ExpectedErrors(qAnswers'))
          /\ ExpectedErrors(qAnswers') # {}
               => /\ qRet'.status = "validation_error"
                  /\ UNCHANGED <<qSaved, sessionStatus, audit>>
          /\ ExpectedErrors(qAnswers') = {}
               => /\ qRet'.status = "ready"
                  /\ qSaved' = [qid \in QuestionIds |-> AnswerOf(qAnswers', qid)]
                  /\ sessionStatus' = "questionnaire_done"
                  /\ Len(audit') = Len(audit) + 1]_vars

\* C20 witness: after valid answers were saved, a call with several
\* errors (an unanswered required question, an answer that is no option,
\* two unknown keys) returned them all and the saved answers stayed
C20_Witness ==
  /\ qCalls = 2
  /\ qRet.status = "validation_error"
  /\ Len(qRet.errors) >= 4
  /\ sessionStatus = "questionnaire_done"
  /\ qSaved # EmptyMap

\* the positions of the artifact a in GENERATION_ORDER
OrderPositions(a) ==
  {i \in DOMAIN GENERATION_ORDER : GENERATION_ORDER[i] = a}

\* C25: the tables the resolver works with are well formed: every artifact
\* type that exists or that a phase definition lists has an entry in
\* DEPENDENCIES and one position in GENERATION_ORDER, every prerequisite
\* stands before its dependent in GENERATION_ORDER, and context_summary
\* has no prerequisites and the first position.
C25_TablesWellFormed ==
  rStage # "idle"
    => /\ \A a \in KnownNames :
            /\ a \in DOMAIN DEPENDENCIES
            /\ Cardinality(OrderPositions(a)) = 1
       /\ \A a \in DOMAIN DEPENDENCIES : \A d \in Range(DEPENDENCIES[a]) :
            \E i \in OrderPositions(d) : \E j \in OrderPositions(a) : i < j
       /\ "context_summary" \in DOMAIN DEPENDENCIES
       /\ DEPENDENCIES["context_summary"] = <<>>
       /\ GENERATION_ORDER[1] = "context_summary"

get_incomplete_artifacts(N) ==
  {a \in DOMAIN progress[N] : progress[N][a] \notin {"completed", "cached"}}

BackendCallFails(N) ==
  /\ task[N].pc = "gen"
  /\ task'[N].pc = "failed"
  /\ task'[N].backend_calls = task[N].backend_calls + 1

\* C23: when the backend call for an artifact fails in the generation task
\* of phase N, the progress row of that artifact on gate N gets status
\* 'failed'; and when gate N has status 'failed', no progress row of gate N
\* has status 'processing'.
C23_FailedArtifactMarked ==
  [][\A N \in Phases :
       /\ BackendCallFails(N)
            => \A a \in DOMAIN progress[N] :
                  a = GenerationPlan(N)[task[N].idx] => progress'[N][a] = "failed"
       /\ gate'[N].status = "failed"
            => \A a \in DOMAIN progress'[N] : progress'[N][a] # "processing"]_vars

\* the artifacts the approved snapshots of the phases before N hold
ApprovedBefore(N) ==
  UNION {DOMAIN runner.snapshots[p].artifacts :
           p \in {q \in DOMAIN runner.snapshots :
                    q < N /\ runner.phase_statuses[q] = "approved"}}

GeneratingPhases == {N \in Phases : gate[N].status = "generating"}

\* the phases whose generation thread is running
RunningTasks == {N \in Phases : task[N].pc \in {"start", "gen", "finish"}}

\* C26: at most one phase gate of the session has status 'generating',
\* and at most one generation thread is running, so that no two
\* generation tasks use the session's runner at the same time.
C26_OneGenerationAtATime ==
  /\ Cardinality(GeneratingPhases) <= 1
  /\ Cardinality(RunningTasks) <= 1

\* C26 witness: phase 2 is generating, its thread at work on the runner
\* the thread of phase 1 made, while another start_phase call has passed
\* its prior-phase check
C26_Witness ==
  /\ GeneratingPhases = {2}
  /\ task[2].pc = "gen"
  /\ task[1].pc = "done"
  /\ InProgress("start", "create") # {}

AuditPositions(N, event_type) ==
  {i \in 1..Len(audit) : /\ audit[i].phase_number = N
                         /\ audit[i].event_type = event_type}

\* the audit rows of phase N are in workflow order
AuditOrdered(N) ==
  /\ \A i \in AuditPositions(N, "artifact_generated") :
        /\ \E s \in AuditPositions(N, "phase_generation_started") : s < i
        /\ \A r \in AuditPositions(N, "phase_review_ready") : i < r
  /\ \A r \in AuditPositions(N, "phase_review_ready") :
        \E s \in AuditPositions(N, "phase_generation_started") : s < r
  /\ \A d \in AuditPositions(N, "phase_approved")
                \cup AuditPositions(N, "phase_rejected") :
        \E r \in AuditPositions(N, "phase_review_ready") : r < d

\* a step leaves the audit rows it finds as they are and in their place
AuditAppendOnly ==
  /\ Len(audit') >= Len(audit)
  /\ \A i \in 1..Len(audit) : audit'[i] = audit[i]

C29_AppendOnlyPart == [][AuditAppendOnly]_vars

\* the step is a step of the generation thread of phase N
GenerationStep(N) ==
  /\ task[N].pc \in {"start", "gen", "finish"}
  /\ task'[N] # task[N]
  /\ task'[N].pc # "dead"

====
